---- MODULE Spec2Model ----
(***************************************************************************)
(* Model of scripts/transcribe.py: the command-line wrapper main(), the    *)
(* availability check, safe_float and the normalisation loop of            *)
(* transcribe_audio, run against an engine that yields segments and words  *)
(* lazily, one record at a time.                                           *)
(*                                                                         *)
(* Floats.  A Python float is modelled as a record [k, n]: k = "fin" with  *)
(* n the value in units of 0.005 s (so 0.01 is Eps = 2 units and 1.0 is    *)
(* One = 200 units), or k = "inf" / "ninf" / "nan".  The finite values of  *)
(* the model are small, far below the magnitude at which a double absorbs  *)
(* an addend of 0.01, so finite addition is exact here; the infinities     *)
(* absorb every finite addend and NaN compares false with everything, as   *)
(* in IEEE-754.                                                            *)
(*                                                                         *)
(* Strings are sequences of one-character strings.                         *)
(***************************************************************************)
EXTENDS Integers, Sequences, FiniteSets, TLC

\* ------------------------------------------------------------- bounds
\* Records (segments and words together) the engine yields in one run.
MaxYield == 3

\* ------------------------------------------------------------- floats
Eps == 2
One == 200

Fin(n) == [k |-> "fin", n |-> n]
PosInf == [k |-> "inf", n |-> 0]
NegInf == [k |-> "ninf", n |-> 0]
NaN == [k |-> "nan", n |-> 0]
Zero == Fin(0)

\* a < b on floats: false whenever either side is NaN
FLt(a, b) ==
    /\ a.k # "nan"
    /\ b.k # "nan"
    /\ \/ a.k = "ninf" /\ b.k # "ninf"
       \/ a.k = "fin" /\ b.k = "inf"
       \/ a.k = "fin" /\ b.k = "fin" /\ a.n < b.n

\* a <= b on floats
FLe(a, b) == a.k # "nan" /\ b.k # "nan" /\ (a = b \/ FLt(a, b))

\* a != b on floats: NaN differs from everything, itself included
FNe(a, b) == a.k = "nan" \/ b.k = "nan" \/ a # b

\* a + d for a finite addend of d units
FAdd(a, d) == IF a.k = "fin" THEN Fin(a.n + d) ELSE a

\* Python's max(a, b) and min(a, b): the first argument unless the second
\* is strictly greater (smaller)
PyMax(a, b) == IF FLt(a, b) THEN b ELSE a
PyMin(a, b) == IF FLt(b, a) THEN b ELSE a

\* ------------------------------------------------------------ strings
IsSpace(c) == c = " "

RECURSIVE LStrip(_)
LStrip(s) == IF s # <<>> /\ IsSpace(Head(s)) THEN LStrip(Tail(s)) ELSE s

RECURSIVE RStrip(_)
RStrip(s) ==
    IF s # <<>> /\ IsSpace(s[Len(s)]) THEN RStrip(SubSeq(s, 1, Len(s) - 1)) ELSE s

\* str.strip()
Strip(s) == RStrip(LStrip(s))

\* " ".join(parts)
RECURSIVE Join(_)
Join(parts) ==
    IF parts = <<>> THEN <<>>
    ELSE IF Len(parts) = 1 THEN parts[1]
    ELSE parts[1] \o <<" ">> \o Join(Tail(parts))

\* ------------------------------------------------- engine field values
\* A field of an engine record: the attribute may be absent, None, a float,
\* a string, or an integer too large for a double (such as 10**400).
Absent == [t |-> "absent", f |-> Zero, s |-> <<>>]
None == [t |-> "none", f |-> Zero, s |-> <<>>]
Flt(x) == [t |-> "float", f |-> x, s |-> <<>>]
Str(s) == [t |-> "str", f |-> Zero, s |-> s]
BigInt == [t |-> "int", f |-> Zero, s |-> <<>>]

\* getattr(obj, name, default)
GetAttr(v, default) == IF v.t = "absent" THEN default ELSE v

Ok(x) == [exc |-> "none", f |-> x]
Raise(e) == [exc |-> e, f |-> Zero]

Digits == {"0", "1", "2", "3", "4", "5", "6", "7", "8", "9"}
DigitVal(c) ==
    CASE c = "0" -> 0 [] c = "1" -> 1 [] c = "2" -> 2 [] c = "3" -> 3
      [] c = "4" -> 4 [] c = "5" -> 5 [] c = "6" -> 6 [] c = "7" -> 7
      [] c = "8" -> 8 [] c = "9" -> 9

RECURSIVE ParseNat(_, _)
ParseNat(s, acc) ==
    IF s = <<>> THEN acc ELSE ParseNat(Tail(s), 10 * acc + DigitVal(Head(s)))

\* float(str) for the strings of the model: surrounding blanks are ignored;
\* "nan", "inf", "-inf" and optionally signed digit strings parse (a digit
\* string d denotes d seconds, d * One units); anything else is a ValueError.
ParseFloat(str) ==
    LET s == Strip(str)
        neg == s # <<>> /\ Head(s) = "-"
        body == IF neg THEN Tail(s) ELSE s
    IN  IF body = <<"n", "a", "n">> THEN Ok(NaN)
        ELSE IF body = <<"i", "n", "f">> THEN Ok(IF neg THEN NegInf ELSE PosInf)
        ELSE IF body # <<>> /\ \A i \in 1..Len(body) : body[i] \in Digits
             THEN Ok(Fin((IF neg THEN -1 ELSE 1) * One * ParseNat(body, 0)))
        ELSE Raise("ValueError")

\* float(value)
PyFloat(v) ==
    CASE v.t = "float" -> Ok(v.f)
      [] v.t = "str" -> ParseFloat(v.s)
      [] v.t = "int" -> Raise("OverflowError")
      [] OTHER -> Raise("TypeError")

\* safe_float(value, fallback): only TypeError and ValueError are caught;
\* any other exception of float() leaves the function.
safe_float(value, fallback) ==
    LET r == PyFloat(value)
    IN  IF r.exc \in {"TypeError", "ValueError"} THEN Ok(fallback)
        ELSE IF r.exc # "none" THEN r
        ELSE IF FNe(r.f, r.f) THEN Ok(fallback)
        ELSE r

\* (getattr(obj, name, "") or "").strip(): a value that is not a string has
\* no strip method
TextOf(v) ==
    CASE v.t \in {"absent", "none"} -> [exc |-> "none", s |-> <<>>]
      [] v.t = "str" -> [exc |-> "none", s |-> Strip(v.s)]
      [] v.t = "float" /\ v.f \in {Zero} -> [exc |-> "none", s |-> <<>>]
      [] OTHER -> [exc |-> "AttributeError", s |-> <<>>]

\* ------------------------------------------------- availability check
\* The two messages of missing_faster_whisper_message
PlatformMessage == "unavailable on macOS Intel with Python 3.14+"
NotInstalledMessage == "faster-whisper is not installed"

missing_faster_whisper_message(unsupported) ==
    IF unsupported THEN PlatformMessage ELSE NotInstalledMessage

\* ------------------------------------------- the normalisation loop body
\* (variant: the running maximum is forgotten)
UpdateDurationLast(dur, segment_end) == segment_end

\* duration = max(duration, segment_end)
UpdateDuration(dur, segment_end) == PyMax(dur, segment_end)

\* (variant: the upper clamp is forgotten)
ClampNoUpper(c) == PyMax(Zero, c)

\* confidence = min(1.0, max(0.0, confidence))
Clamp(c) == PyMin(Fin(One), PyMax(Zero, c))

\* (variant: empty tokens are not skipped)
SkipWordNever(token) == FALSE

\* if not token: continue
SkipWord(token) == token = <<>>

\* Lines 77-83 for one segment: [exc, site, text, start, end]
SegmentHeader(seg) ==
    LET txt == TextOf(seg.text)
        st == safe_float(GetAttr(seg.start, Flt(Zero)), Zero)
        dflt == FAdd(st.f, Eps)
        en == safe_float(GetAttr(seg.end, Flt(dflt)), dflt)
    IN  IF txt.exc # "none"
        THEN [exc |-> txt.exc, site |-> "strip", text |-> <<>>, start |-> Zero, end |-> Zero]
        ELSE IF st.exc # "none"
        THEN [exc |-> st.exc, site |-> "safe_float", text |-> <<>>, start |-> Zero, end |-> Zero]
        ELSE IF en.exc # "none"
        THEN [exc |-> en.exc, site |-> "safe_float", text |-> <<>>, start |-> Zero, end |-> Zero]
        ELSE [exc |-> "none", site |-> "", text |-> txt.s, start |-> st.f, end |-> en.f]

NoWord == [text |-> <<>>, start |-> Zero, end |-> Zero, confidence |-> Zero]

\* Lines 86-105 for one word of a segment with bounds segment_start and
\* segment_end: [exc, site, skip, rec]
NormalizeWord(w, segment_start, segment_end) ==
    LET tok == TextOf(w.word)
        st == safe_float(GetAttr(w.start, Flt(segment_start)), segment_start)
        en == safe_float(GetAttr(w.end, Flt(segment_end)),
                         PyMax(FAdd(st.f, Eps), segment_end))
        end == IF FLe(en.f, st.f) THEN FAdd(st.f, Eps) ELSE en.f
        pr == safe_float(GetAttr(w.probability, Flt(Zero)), Zero)
    IN  IF tok.exc # "none"
        THEN [exc |-> tok.exc, site |-> "strip", skip |-> FALSE, rec |-> NoWord]
        ELSE IF SkipWord(tok.s)
        THEN [exc |-> "none", site |-> "", skip |-> TRUE, rec |-> NoWord]
        ELSE IF st.exc # "none"
        THEN [exc |-> st.exc, site |-> "safe_float", skip |-> FALSE, rec |-> NoWord]
        ELSE IF en.exc # "none"
        THEN [exc |-> en.exc, site |-> "safe_float", skip |-> FALSE, rec |-> NoWord]
        ELSE IF pr.exc # "none"
        THEN [exc |-> pr.exc, site |-> "safe_float", skip |-> FALSE, rec |-> NoWord]
        ELSE [exc |-> "none", site |-> "", skip |-> FALSE,
              rec |-> [text |-> tok.s, start |-> st.f, end |-> end,
                       confidence |-> Clamp(pr.f)]]

\* (variant: no fallback to the word texts)
FinalTextNoFallback(parts, ws) == Strip(Join(parts))

\* Lines 107-109: the text of the result
FinalText(parts, ws) ==
    LET joined == Strip(Join(parts))
    IN  IF joined = <<>>
        THEN Strip(Join([i \in 1..Len(ws) |-> ws[i].text]))
        ELSE joined

\* -------------------------------------------------- engine record inputs
Hi == <<" ", "h", "i", " ">>
There == <<"t", "h", "e", "r", "e">>

\* Segments the engine may yield: the text varies at plain bounds
\* (0.0 .. 1.0), and the bounds vary at a plain text.
Seg(text, start, end) == [text |-> text, start |-> start, end |-> end]
SegmentInputs ==
    { Seg(x, Flt(Zero), Flt(Fin(One))) :
        x \in {None, Str(<<" ">>), Str(Hi), Str(<<"y", "o">>), BigInt} }
    \cup
    { Seg(Str(Hi), Absent, Absent),
      Seg(Str(Hi), Flt(Zero), Flt(Fin(1))),
      Seg(Str(Hi), Flt(Zero), Flt(Fin(-Eps))),
      Seg(Str(Hi), Flt(PosInf), Flt(NaN)),
      Seg(Str(Hi), Flt(Fin(-4)), None),
      Seg(Str(Hi), Flt(Zero), BigInt) }

\* Words the engine may yield: token, timing and probability each vary
\* with the other two plain (0.0 .. 0.4, probability 0.9).
Word(word, start, end, probability) ==
    [word |-> word, start |-> start, end |-> end, probability |-> probability]
WordInputs ==
    { Word(x, Flt(Zero), Flt(Fin(80)), Flt(Fin(180))) :
        x \in {Absent, Str(<<" ">>), Str(Hi), BigInt} }
    \cup
    { Word(Str(There), Absent, Absent, Flt(Fin(180))),
      Word(Str(There), None, Str(<<"x">>), Flt(Fin(180))),
      Word(Str(There), Flt(PosInf), Flt(Zero), Flt(Fin(180))),
      Word(Str(There), Str(<<"1">>), Flt(Zero), Flt(Fin(180))),
      Word(Str(There), Flt(Fin(80)), Flt(Fin(80)), Flt(Fin(180))),
      Word(Str(There), Absent, Str(<<"x">>), Flt(Fin(180))),
      Word(Str(There), BigInt, Absent, Flt(Fin(180))) }
    \cup
    { Word(Str(Hi), Flt(Zero), Flt(Fin(80)), x) :
        x \in {Absent, Flt(NaN), Flt(Fin(280)), Flt(Fin(-100)),
               Str(<<"n", "a", "n">>)} }

\* info.language
Languages == {Absent, Str(<<"e", "n">>)}

\* ------------------------------------------------------------- state
VARIABLES
    pc,                 \* position of main: start, main, transcribe,
                        \* segments, words, write, done
    argCheck,           \* --check given
    argsGiven,          \* --input and --output given
    inputExists,        \* os.path.exists(args.input)
    whisperLoaded,      \* WhisperModel is not None (the import succeeded)
    unsupported,        \* is_unsupported_macos_intel_python()
    modelBuilt,         \* WhisperModel(...) was constructed
    decodeCalls,        \* calls of model.transcribe
    words, text_parts, duration,    \* locals of transcribe_audio
    segment_start, segment_end,     \* bounds of the current segment
    result,             \* <<>> or <<the dict transcribe_audio returned>>
    outputFile,         \* <<>> or <<the document written to args.output>>
    exitCode,           \* -1 while running
    stderr,             \* "" or the message printed to the error stream
    excSite,            \* "" or where the exception main caught was raised
    segsSeen,           \* history: segments consumed, [text, end]
    seen                \* history: words consumed, with their segment bounds

vars == <<pc, argCheck, argsGiven, inputExists, whisperLoaded, unsupported,
          modelBuilt, decodeCalls, words, text_parts, duration,
          segment_start, segment_end, result, outputFile, exitCode, stderr,
          excSite, segsSeen, seen>>

env == <<argCheck, argsGiven, inputExists, whisperLoaded, unsupported>>
locals == <<words, text_parts, duration, segment_start, segment_end>>
history == <<segsSeen, seen>>

Init ==
    /\ pc = "start"
    /\ argCheck \in BOOLEAN
    /\ argsGiven \in BOOLEAN
    /\ inputExists \in BOOLEAN
    /\ whisperLoaded \in BOOLEAN
    /\ unsupported \in BOOLEAN
    /\ modelBuilt = FALSE
    /\ decodeCalls = 0
    /\ words = <<>>
    /\ text_parts = <<>>
    /\ duration = Zero
    /\ segment_start = Zero
    /\ segment_end = Zero
    /\ result = <<>>
    /\ outputFile = <<>>
    /\ exitCode = -1
    /\ stderr = ""
    /\ excSite = ""
    /\ segsSeen = <<>>
    /\ seen = <<>>

\* The process ends with `code`, having printed `msg` to the error stream
Exit(code, msg) ==
    /\ pc' = "done"
    /\ exitCode' = code
    /\ stderr' = msg

\* The frame of transcribe_audio is left: its locals are gone
DropFrame ==
    /\ words' = <<>>
    /\ text_parts' = <<>>
    /\ duration' = Zero
    /\ segment_start' = Zero
    /\ segment_end' = Zero

\* (variant: main tries again after a failure)
CaughtRetry(site) ==
    /\ pc' = "main"
    /\ excSite' = site
    /\ DropFrame
    /\ segsSeen' = <<>>
    /\ seen' = <<>>
    /\ UNCHANGED <<exitCode, stderr>>

\* except Exception in main: transcribe_audio is unwound (nothing of the
\* run is kept), the message is printed and main returns 1
Caught(site) ==
    /\ Exit(1, "Transcription failed")
    /\ excSite' = site
    /\ DropFrame
    /\ segsSeen' = <<>>
    /\ seen' = <<>>

\* (variant: the existence check is forgotten)
InputMissingNever == FALSE

\* not os.path.exists(args.input)
InputMissing == ~inputExists

\* parse_args: --input and --output are required unless --check
ParseArgs ==
    /\ pc = "start"
    /\ IF ~argCheck /\ ~argsGiven
       THEN Exit(2, "usage")
       ELSE pc' = "main" /\ UNCHANGED <<exitCode, stderr>>
    /\ UNCHANGED <<env, modelBuilt, decodeCalls, locals, result, outputFile,
                   excSite, history>>

\* main, --check
Check ==
    /\ pc = "main"
    /\ argCheck
    /\ IF ~whisperLoaded \/ unsupported
       THEN Exit(1, missing_faster_whisper_message(unsupported))
       ELSE Exit(0, "")
    /\ UNCHANGED <<env, modelBuilt, decodeCalls, locals, result, outputFile,
                   excSite, history>>

\* main, the input path does not exist
InputNotFound ==
    /\ pc = "main"
    /\ ~argCheck
    /\ InputMissing
    /\ Exit(2, "Input audio not found")
    /\ UNCHANGED <<env, modelBuilt, decodeCalls, locals, result, outputFile,
                   excSite, history>>

\* transcribe_audio, build_model: raises when WhisperModel is None; the
\* constructor itself may fail too
BuildModel ==
    /\ pc = "main"
    /\ ~argCheck
    /\ ~InputMissing
    /\ \/ /\ ~whisperLoaded
          /\ Caught("build_model")
          /\ UNCHANGED modelBuilt
       \/ /\ whisperLoaded
          /\ Caught("WhisperModel")
          /\ UNCHANGED modelBuilt
       \/ /\ whisperLoaded
          /\ modelBuilt' = TRUE
          /\ pc' = "transcribe"
          /\ UNCHANGED <<exitCode, stderr, excSite, locals, history>>
    /\ UNCHANGED <<env, decodeCalls, result, outputFile>>

\* model.transcribe(...): fails, or returns the lazy segments and info
Transcribe ==
    /\ pc = "transcribe"
    /\ decodeCalls' = decodeCalls + 1
    /\ \/ Caught("transcribe")
       \/ /\ pc' = "segments"
          /\ UNCHANGED <<exitCode, stderr, excSite, locals, history>>
    /\ UNCHANGED <<env, modelBuilt, result, outputFile>>

Yielded == Len(segsSeen) + Len(seen)

\* for segment in segments: the engine yields a segment; lines 77-85
\* (a segment whose words are absent or None has no words to iterate)
NextSegment ==
    /\ pc = "segments"
    /\ Yielded < MaxYield
    /\ \E seg \in SegmentInputs, hasWords \in BOOLEAN :
          LET h == SegmentHeader(seg)
          IN  IF h.exc # "none"
              THEN Caught(h.site)
              ELSE /\ text_parts' =
                          IF h.text # <<>> THEN Append(text_parts, h.text)
                          ELSE text_parts
                   /\ segment_start' = h.start
                   /\ segment_end' = h.end
                   /\ duration' = UpdateDuration(duration, h.end)
                   /\ segsSeen' = Append(segsSeen, [text |-> seg.text, end |-> h.end])
                   /\ pc' = IF hasWords THEN "words" ELSE "segments"
                   /\ UNCHANGED <<words, seen, exitCode, stderr, excSite>>
    /\ UNCHANGED <<env, modelBuilt, decodeCalls, result, outputFile>>

\* the segment generator raises while it is iterated
SegmentsRaise ==
    /\ pc = "segments"
    /\ Caught("segments")
    /\ UNCHANGED <<env, modelBuilt, decodeCalls, result, outputFile>>

\* for word in segment.words: the engine yields a word; lines 86-105
NextWord ==
    /\ pc = "words"
    /\ Yielded < MaxYield
    /\ \E w \in WordInputs :
          LET r == NormalizeWord(w, segment_start, segment_end)
          IN  IF r.exc # "none"
              THEN Caught(r.site)
              ELSE /\ words' = IF r.skip THEN words ELSE Append(words, r.rec)
                   /\ seen' = Append(seen,
                          [w |-> w, segStart |-> segment_start,
                           segEnd |-> segment_end,
                           out |-> IF r.skip THEN 0 ELSE Len(words) + 1])
                   /\ UNCHANGED <<pc, exitCode, stderr, excSite, text_parts,
                                  duration, segment_start, segment_end,
                                  segsSeen>>
    /\ UNCHANGED <<env, modelBuilt, decodeCalls, result, outputFile>>

\* the word sequence raises while it is iterated
WordsRaise ==
    /\ pc = "words"
    /\ Caught("words")
    /\ UNCHANGED <<env, modelBuilt, decodeCalls, result, outputFile>>

\* the words of the segment are exhausted
EndWords ==
    /\ pc = "words"
    /\ pc' = "segments"
    /\ UNCHANGED <<env, modelBuilt, decodeCalls, locals, result, outputFile,
                   exitCode, stderr, excSite, history>>

\* the segments are exhausted: lines 107-116, transcribe_audio returns
EndSegments ==
    /\ pc = "segments"
    /\ \E lang \in Languages :
          result' = <<[text |-> FinalText(text_parts, words),
                       language |-> GetAttr(lang, None),
                       duration |-> duration,
                       words |-> words]>>
    /\ DropFrame
    /\ pc' = "write"
    /\ UNCHANGED <<env, modelBuilt, decodeCalls, outputFile, exitCode, stderr,
                   excSite, history>>

\* main, lines 158-162: the result is written and main returns 0
WriteOutput ==
    /\ pc = "write"
    /\ outputFile' = result
    /\ Exit(0, "")
    /\ UNCHANGED <<env, modelBuilt, decodeCalls, locals, result, excSite,
                   history>>

Next ==
    \/ ParseArgs
    \/ Check
    \/ InputNotFound
    \/ BuildModel
    \/ Transcribe
    \/ NextSegment
    \/ SegmentsRaise
    \/ NextWord
    \/ WordsRaise
    \/ EndWords
    \/ EndSegments
    \/ WriteOutput

Spec == Init /\ [][Next]_vars

\* ------------------------------------------------------------- claims
Returned == result # <<>>

\* The words emitted so far: those of the result once it is returned
EmittedWords == IF Returned THEN result[1].words ELSE words

\* The word emitted for the i-th word consumed
OutWord(i) == EmittedWords[seen[i].out]

SegEnds == {segsSeen[i].end : i \in 1..Len(segsSeen)}

\* The greatest float of a non-empty set without NaN
MaxOf(S) == CHOOSE e \in S : \A x \in S : FLe(x, e)

\* A field from which float() gets no number: absent, None, unparseable
NoNumber(v) == v.t = "absent" \/ PyFloat(v).exc \in {"TypeError", "ValueError"}

AllBlank(s) == \A i \in 1..Len(s) : s[i] = " "

NonEmpty(s) == s # <<>>

\* C1: every word of the result returned by transcribe_audio has
\* end > start strictly, whatever start and end values the engine gave.
C1_WordEndAfterStart ==
    Returned =>
        \A i \in 1..Len(result[1].words) :
            FLt(result[1].words[i].start, result[1].words[i].end)

\* C2 as claimed: the returned duration is the maximum segment end-time of
\* the segments consumed, or 0.0 if there were none.
C2_DurationIsMaxSegmentEnd ==
    Returned =>
        result[1].duration = IF segsSeen = <<>> THEN Zero ELSE MaxOf(SegEnds)

\* C2 as amended: the returned duration is the maximum of 0.0 and the
\* segment end-times of the segments consumed.
C2_DurationIsMaxOfZeroAndEnds ==
    Returned => result[1].duration = MaxOf(SegEnds \cup {Zero})

\* C2 witness: a result over two segments whose end-times are out of order,
\* the later one negative
C2_Witness ==
    /\ Returned
    /\ Len(segsSeen) = 2
    /\ segsSeen[1].end = Fin(1)
    /\ segsSeen[2].end = Fin(-Eps)
    /\ result[1].duration = Fin(1)

\* C3: not in --check mode and with the input path missing, main ends with
\* exit code 2, the model is never built, the engine never invoked and the
\* output never written, whether or not the capability is available.
C3_InputMissingExits2 ==
    (~argCheck /\ ~inputExists) =>
        /\ ~modelBuilt
        /\ decodeCalls = 0
        /\ result = <<>>
        /\ outputFile = <<>>
        /\ pc \in {"start", "main", "done"}
        /\ pc = "done" => exitCode = 2

\* C3 witness: the input is missing although the capability is available
C3_Witness ==
    /\ pc = "done"
    /\ ~argCheck
    /\ argsGiven
    /\ ~inputExists
    /\ whisperLoaded
    /\ exitCode = 2
    /\ stderr = "Input audio not found"

\* C4: a failure of model construction, of the transcribe call or of the
\* iteration ends main with exit code 1 and the message on the error
\* stream, with no output written; the output is written only from a
\* returned result; model.transcribe is called at most once.
C4_FailureCaughtNoOutputNoRetry ==
    /\ excSite # "" =>
          /\ pc = "done"
          /\ exitCode = 1
          /\ stderr = "Transcription failed"
          /\ result = <<>>
          /\ outputFile = <<>>
    /\ (pc = "done" /\ ~argCheck /\ argsGiven /\ inputExists /\ ~whisperLoaded)
          => exitCode = 1 /\ outputFile = <<>>
    /\ outputFile # <<>> => Returned /\ outputFile = result
    /\ decodeCalls <= 1

\* C4 witness: the iteration over the words failed after the one decode call
C4_Witness ==
    /\ pc = "done"
    /\ excSite = "words"
    /\ decodeCalls = 1
    /\ exitCode = 1
    /\ outputFile = <<>>

C6_ConfidenceClamped ==
    \A i \in 1..Len(seen) :
        seen[i].out # 0 =>
            LET c == OutWord(i).confidence
                p == seen[i].w.probability
            IN  /\ FLe(Zero, c)
                /\ FLe(c, Fin(One))
                /\ NoNumber(p) => c = Zero
                /\ ~NoNumber(p) =>
                      /\ PyFloat(p).f.k = "nan" => c = Zero
                      /\ FLt(Fin(One), PyFloat(p).f) => c = Fin(One)
                      /\ FLt(PyFloat(p).f, Zero) => c = Zero

\* C6 witness: a result with a word of probability 1.4 and one of NaN
C6_Witness ==
    /\ Returned
    /\ \E i, j \in 1..Len(seen) :
          /\ seen[i].out # 0
          /\ seen[i].w.probability = Flt(Fin(280))
          /\ OutWord(i).confidence = Fin(One)
          /\ seen[j].out # 0
          /\ seen[j].w.probability = Flt(NaN)
          /\ OutWord(j).confidence = Zero

\* C7: the emitted words are the words consumed, in order, without those
\* whose trimmed text is empty: no emitted text is empty, and no more
\* words are emitted than consumed.
C7_WordsAreNonEmptyTokensInOrder ==
    excSite = "" =>
        /\ [i \in 1..Len(EmittedWords) |-> EmittedWords[i].text]
              = SelectSeq([i \in 1..Len(seen) |-> TextOf(seen[i].w.word).s], NonEmpty)
        /\ \A i \in 1..Len(EmittedWords) : EmittedWords[i].text # <<>>
        /\ \A i \in 1..Len(seen) :
              seen[i].out = 0 <=>
                  (seen[i].w.word.t \in {"absent", "none"} \/ AllBlank(seen[i].w.word.s))
        /\ Len(EmittedWords) <= Len(seen)

\* C7 witness: a result in which a blank word was dropped and the word
\* after it emitted
C7_Witness ==
    /\ Returned
    /\ Len(seen) = 2
    /\ seen[1].w.word = Str(<<" ">>)
    /\ seen[1].out = 0
    /\ seen[2].out = 1
    /\ Len(result[1].words) = 1
    /\ result[1].words[1].text = There

\* C8: the result text is the space-joined non-empty trimmed segment
\* texts; if that is empty, the space-joined texts of the emitted words;
\* with no segment the result is text "", no words, duration 0.0.
C8_ResultText ==
    Returned =>
        LET parts == SelectSeq([i \in 1..Len(segsSeen) |-> TextOf(segsSeen[i].text).s],
                               NonEmpty)
            wordTexts == [i \in 1..Len(result[1].words) |-> result[1].words[i].text]
        IN  /\ result[1].text = IF parts # <<>> THEN Join(parts) ELSE Join(wordTexts)
            /\ segsSeen = <<>> =>
                  /\ result[1].text = <<>>
                  /\ result[1].words = <<>>
                  /\ result[1].duration = Zero

\* C8 witness: every segment text is empty, words exist, and the text is
\* their join
C8_Witness ==
    /\ Returned
    /\ \A i \in 1..Len(segsSeen) : TextOf(segsSeen[i].text).s = <<>>
    /\ Len(result[1].words) = 2
    /\ result[1].text = <<"h", "i", " ", "h", "i">>

\* C9: safe_float is total: no call of it raises, so no run ends with an
\* exception that left safe_float.
C9_SafeFloatNeverRaises == excSite # "safe_float"

\* C10: a word whose start is missing starts at its segment's start, and a
\* word whose end is missing ends at max(start + 0.01, segmentEnd), however
\* the field is missing.
C10_MissingTimingInheritsSegment ==
    \A i \in 1..Len(seen) :
        seen[i].out # 0 =>
            /\ NoNumber(seen[i].w.start) => OutWord(i).start = seen[i].segStart
            /\ NoNumber(seen[i].w.end) =>
                  \/ /\ FLe(seen[i].segEnd, FAdd(OutWord(i).start, Eps))
                     /\ OutWord(i).end = FAdd(OutWord(i).start, Eps)
                  \/ /\ FLt(FAdd(OutWord(i).start, Eps), seen[i].segEnd)
                     /\ OutWord(i).end = seen[i].segEnd
====
